---- MODULE Spec2Model ----
(***************************************************************************)
(* Face tension monitor: the calibration session, the baseline and the     *)
(* sustained-tension detector of src/src/App.tsx, driven frame by frame by *)
(* the requestAnimationFrame loop and by the "Calibrate" button and the    *)
(* "Alerts" switch.                                                        *)
(*                                                                         *)
(* Numbers.  A signal component is the integer v standing for the real     *)
(* number v / Den.  Sample values are multiples of 12, so the mean of up   *)
(* to four samples is again an integer and "/ samples.length" is exact.    *)
(* Ratios and scores are exact rationals <<num, den>>; in the frame loop    *)
(* the rounding of IEEE doubles is not modelled.  The sums and divisions   *)
(* of finalizeCalibration are modelled apart, in binary64 with rounding to *)
(* nearest (SpecMean).  Times are integer milliseconds.                    *)
(* Display-only state (canvas, the throttled live read-outs of eye, brow   *)
(* and head rotation, picture-in-picture) is left out.                     *)
(***************************************************************************)
EXTENDS Integers, Sequences, FiniteSets, TLC

\* ---- program constants (src/src/App.tsx:19-29) ----
CALIBRATION_DURATION_MS == 10000
TENSION_ALERT_THRESHOLD_MS == 3000
SAMPLE_INTERVAL_MS == 100

\* ---- bounds of the model ----
MaxTicks == 5
MaxSamples == 2
MaxStarts == 2
MaxFloatSamples == 3
MaxLoopFrames == 4
MaxLoops == 3
MaxRafIds == 7

\* denominator of the fixed-point representation of signal components
Den == 12 * 500

\* a time reference holding null
NULL == -1

\* ---- exact rational arithmetic ----
Abs(x) == IF x < 0 THEN -x ELSE x

RECURSIVE Gcd(_, _)
Gcd(a, b) == IF b = 0 THEN a ELSE Gcd(b, a % b)

Sign(n) == IF n > 0 THEN 1 ELSE IF n < 0 THEN -1 ELSE 0

\* n / d in lowest terms; a division by zero gives what it gives in
\* JavaScript: <<1, 0>> is Infinity, <<-1, 0>> is -Infinity, <<0, 0>> is NaN
Rat(n, d) ==
  LET g == Gcd(Abs(n), Abs(d))
      s == IF d < 0 THEN -1 ELSE 1
  IN  IF d = 0 THEN <<Sign(n), 0>>
      ELSE IF n = 0 THEN <<0, 1>>
      ELSE <<(s * n) \div g, (s * d) \div g>>

RAdd(a, b) == Rat(a[1] * b[2] + b[1] * a[2], a[2] * b[2])
RSub(a, b) == Rat(a[1] * b[2] - b[1] * a[2], a[2] * b[2])
RMul(a, b) == Rat(a[1] * b[1], a[2] * b[2])
RDiv(a, b) == Rat(a[1] * b[2], a[2] * b[1])
RLess(a, b) == a[1] * b[2] < b[1] * a[2]
NaN == <<0, 0>>
\* Math.max and Math.min, NaN if an argument is
RMax(a, b) == IF a = NaN \/ b = NaN THEN NaN ELSE IF RLess(a, b) THEN b ELSE a
RMin(a, b) == IF a = NaN \/ b = NaN THEN NaN ELSE IF RLess(b, a) THEN b ELSE a
\* a number that is neither NaN nor an infinity
Finite(a) == a[2] # 0
RZero == <<0, 1>>
ROne == <<1, 1>>

\* ---- detection thresholds (src/src/App.tsx:25-29), as exact rationals ----
TENSION_THRESHOLD == <<9, 10>>
SMILE_MOUTH_WIDTH_THRESHOLD == <<21, 20>>
SMILE_CORNER_LIFT_THRESHOLD == <<13, 10>>
SMILE_CHEEK_RAISE_THRESHOLD == <<19, 20>>
HEAD_ROTATION_THRESHOLD == <<1, 2>>

\* ---- the signals a frame can carry ----
Sig(e, b, m, l, c, h) ==
  [eyeOpenAvg |-> e, browInnerDist |-> b, mouthWidth |-> m,
   mouthCornerLift |-> l, cheekRaise |-> c, headRotation |-> h]

Neutral == Sig(720, 1800, 2160, 36, 1800, 0)
\* eyeOpenAvg at 80% of Neutral, everything else as Neutral
Tense80 == Sig(576, 1800, 2160, 36, 1800, 0)
\* eyes at 80%, but a wide mouth with lifted corners
Smile == Sig(576, 1800, 2376, 108, 1800, 0)
\* eyes at 80%, head turned to 0.6
Turned == Sig(576, 1800, 2160, 36, 1800, 3600)

SignalSet == {Neutral, Tense80, Smile, Turned}

\* the time between two frames: while a calibration is collecting, around
\* the sample interval and the end of the window; otherwise around the
\* sustain threshold
CalSteps == {99, 100, 9900}
DetSteps == {2999, 3000}

VARIABLES
  clock,                  \* performance.now()
  isCalibrating,          \* React state behind the disabled "Calibrate" button
  isCalibrationRef,
  calibrationEndTimeRef,
  samplesRef,
  lastSampleTimeRef,
  calibrationSecondsLeft,
  neutralRef,             \* <<>> for null, <<baseline>> otherwise
  hasCalibratedRef,
  tensionStartTimeRef,
  audioCtxRef,            \* TRUE once the AudioContext exists
  isAlertEnabled,
  isSmiling,
  smileScore,
  fired,                  \* triggerTensionAlert ran in the last frame or click
  verdict,                \* what checkTension decided in the last frame or click
  op,                     \* the last frame or click: "signal", "noInput", "start"
  sig,                    \* the signal of the last frame, <<>> if none
  ticks,                  \* frames delivered so far
  starts,                 \* calibrations started so far
  \* ---- history, read by the properties only ----
  prevStart,              \* tensionStartTimeRef before the last frame or click
  finalized,              \* the last frame finalized a calibration
  sampleLog,              \* accepted samples of the session, with times; kept
                          \* until the frame after the one that finalizes it
  shadowSamples,          \* samples of the same session fed in-gate frames only
  shadowLast,             \* lastSampleTimeRef of that second session
  epStart,                \* first tick of the running tense episode, or NULL
  epPure,                 \* every frame since epStart carried a signal
  runFromIdle,            \* the baseline was installed with no start time kept
  alertTimes,             \* the times of all alerts so far
  e2e,                    \* progress of the end-to-end scenario
  holdStart,              \* its first frame with the eyes at 80%
  \* ---- one component of a sample list in doubles ----
  fSamples,               \* the component's values of the accepted samples
  fMean,                  \* <<>>, or <<the mean finalizeCalibration computed>>
  \* ---- computeSignals on one landmark list ----
  landmarks,              \* the list passed to computeSignals, <<>> if empty
  extracted,              \* what it returned: <<>> for null, else <<signals>>
  extractDone,            \* computeSignals has returned
  \* ---- checkTension on one signal against one baseline ----
  signalsIn,              \* the signals passed to checkTension
  neutralIn,              \* neutralRef.current during the call
  indicators,             \* detectSmile's indicators, <<>> if it did not run
  checked,                \* <<>>, or <<the refs and state after the call>>
  \* ---- dist2D on one pair of landmarks, in doubles ----
  pointA,                 \* the landmarks, their coordinates in units of
  pointB,                 \* 2^unitExp
  unitExp,
  measured,               \* <<>>, or <<the distances computed>>
  \* ---- the instances of the detection loop and their callbacks ----
  loops,                  \* the closures the loop effect has created
  rafQueue,               \* the animation-frame callbacks not yet run
  rafIdRef,               \* rafIdRef.current, 0 for null
  nextRafId,              \* the ids requestAnimationFrame has handed out
  effectDue,              \* the switch was clicked, the effect not yet re-run
  landmarkerLoaded,       \* landmarkerRef.current is set
  lateWork,               \* a loop other than the newest ran a frame
  \* ---- useFaceLandmarker and useCamera, from mount to unmount ----
  lmHook,                 \* useFaceLandmarker: position, status, ref
  camHook,                \* useCamera: position, status, stream
  mounted,                \* the component is mounted
  unmountStatus           \* <<>>, or <<the two statuses at the unmount>>

vars == <<clock, isCalibrating, isCalibrationRef, calibrationEndTimeRef,
          samplesRef, lastSampleTimeRef, calibrationSecondsLeft, neutralRef,
          hasCalibratedRef, tensionStartTimeRef, audioCtxRef, isAlertEnabled,
          isSmiling, smileScore, fired, verdict, op, sig, ticks, starts,
          prevStart, finalized, sampleLog, shadowSamples, shadowLast,
          epStart, epPure, runFromIdle, alertTimes, e2e, holdStart,
          fSamples, fMean, landmarks, extracted, extractDone,
          signalsIn, neutralIn, indicators, checked,
          pointA, pointB, unitExp, measured,
          loops, rafQueue, rafIdRef, nextRafId, effectDue, landmarkerLoaded,
          lateWork, lmHook, camHook, mounted, unmountStatus>>

meanVars == <<fSamples, fMean>>
signalVars == <<landmarks, extracted, extractDone>>

\* the variables of the computations studied apart from the frame loop
tensionVars == <<signalsIn, neutralIn, indicators, checked>>

distVars == <<pointA, pointB, unitExp, measured>>

loopVars == <<loops, rafQueue, rafIdRef, nextRafId, effectDue,
              landmarkerLoaded, lateWork>>
hookVars == <<lmHook, camHook, mounted, unmountStatus>>

mathVars == <<meanVars, signalVars, tensionVars, distVars, loopVars,
              hookVars>>

\* the refs and React state of App as one record
Refs ==
  [isCalibrating |-> isCalibrating,
   isCalibrationRef |-> isCalibrationRef,
   calibrationEndTimeRef |-> calibrationEndTimeRef,
   samplesRef |-> samplesRef,
   lastSampleTimeRef |-> lastSampleTimeRef,
   calibrationSecondsLeft |-> calibrationSecondsLeft,
   neutralRef |-> neutralRef,
   hasCalibratedRef |-> hasCalibratedRef,
   tensionStartTimeRef |-> tensionStartTimeRef,
   audioCtxRef |-> audioCtxRef,
   isSmiling |-> isSmiling,
   smileScore |-> smileScore,
   fired |-> FALSE,
   verdict |-> "none"]

\* Math.ceil(x / 1000) for an integer x
CeilSeconds(x) == -((-x) \div 1000)

Max(a, b) == IF a >= b THEN a ELSE b

\* Math.abs(signals.headRotation) > HEAD_ROTATION_THRESHOLD
HeadTurned(signals) ==
  Abs(signals.headRotation) * HEAD_ROTATION_THRESHOLD[2]
    > HEAD_ROTATION_THRESHOLD[1] * Den

\* slip: the head-rotation gate is forgotten
handleCalibrationSample_noGate(r, signals, now) ==
  IF now - r.lastSampleTimeRef >= SAMPLE_INTERVAL_MS
  THEN [r EXCEPT
          !.samplesRef = Append(r.samplesRef, signals),
          !.lastSampleTimeRef = now,
          !.calibrationSecondsLeft =
             Max(0, CeilSeconds(r.calibrationEndTimeRef - now))]
  ELSE r

handleCalibrationSample(r, signals, now) ==
  IF now - r.lastSampleTimeRef >= SAMPLE_INTERVAL_MS
  THEN [r EXCEPT
          !.samplesRef = IF ~HeadTurned(signals)
                         THEN Append(r.samplesRef, signals)
                         ELSE r.samplesRef,
          !.lastSampleTimeRef = now,
          !.calibrationSecondsLeft =
             Max(0, CeilSeconds(r.calibrationEndTimeRef - now))]
  ELSE r

RECURSIVE SumOf(_, _)
\* samples.reduce((sum, s) => sum + s[f], 0)
SumOf(samples, f) ==
  IF samples = <<>> THEN 0
  ELSE samples[1][f] + SumOf(Tail(samples), f)

Mean(samples, f) == SumOf(samples, f) \div Len(samples)

\* ---- IEEE 754 binary64 numbers, as finalizeCalibration adds and divides them ----
\* A positive double is [e |-> k, m |-> ds]: ds is its 53-bit significand as
\* 14 hexadecimal digits, the first of them 1, and its value is ds * 2^k.

\* the double with biased exponent field ex and the 13 fraction digits hs
Double(ex, hs) == [e |-> ex - 1075, m |-> <<1>> \o hs]

Zeros(k) == [i \in 1..k |-> 0]

\* adding the digit strings A and B carries into position i (0 for the carry
\* out of the first digit)
CarryInto(A, B, i) ==
  \E j \in (i + 1)..Len(A) :
     /\ A[j] + B[j] >= 16
     /\ \A k \in (i + 1)..(j - 1) : A[k] + B[k] = 15

\* the sum of the digit strings A and B (same length), one digit longer
AddDigits(A, B) ==
  [i \in 1..(Len(A) + 1) |->
     IF i = 1 THEN (IF CarryInto(A, B, 0) THEN 1 ELSE 0)
     ELSE (A[i - 1] + B[i - 1]
             + (IF CarryInto(A, B, i - 1) THEN 1 ELSE 0)) % 16]

Pow2(s) == IF s = 0 THEN 1 ELSE IF s = 1 THEN 2 ELSE IF s = 2 THEN 4 ELSE 8

\* ds * 2^s for 0 <= s <= 3, one digit longer
ShiftLeft(ds, s) ==
  [i \in 1..(Len(ds) + 1) |->
     (IF i >= 2 THEN (ds[i - 1] * Pow2(s)) % 16 ELSE 0)
       + (IF i <= Len(ds) THEN (ds[i] * Pow2(s)) \div 16 ELSE 0)]

\* the position of the leading non-zero digit of a string that has one
FirstDigit(ds) ==
  CHOOSE i \in 1..Len(ds) : ds[i] # 0 /\ \A j \in 1..(i - 1) : ds[j] = 0

StripZeros(ds) == SubSeq(ds, FirstDigit(ds), Len(ds))

\* the number of bits by which to shift a leading digit d to make it (1x) 1
LeadShift(d) ==
  IF d >= 8 THEN 1 ELSE IF d >= 4 THEN 2 ELSE IF d >= 2 THEN 3 ELSE 0

\* the significand after the increment inc (15 digits, the first 0)
Renormal(inc, k) ==
  IF inc[2] = 2 THEN [e |-> k + 1, m |-> <<1>> \o Zeros(13)]
  ELSE [e |-> k, m |-> SubSeq(inc, 2, 15)]

\* round to nearest, ties to even: ds (leading digit 1, at least 14 digits)
\* times 2^k, sticky telling that a non-zero remainder lies below the last digit
RoundDigits(ds, sticky, k) ==
  Renormal(AddDigits(SubSeq(ds, 1, 14),
                     Zeros(13) \o
                       << IF /\ Len(ds) > 14
                             /\ ds[15] >= 8
                             /\ \/ sticky
                                \/ ds[14] % 2 = 1
                                \/ ds[15] # 8
                                \/ \E j \in 16..Len(ds) : ds[j] # 0
                          THEN 1 ELSE 0 >>),
           k + 4 * (Len(ds) - 14))

\* ds (leading digit non-zero) times 2^k, rounded to a double
Normalized(ds, sticky, k) ==
  RoundDigits(StripZeros(ShiftLeft(ds, LeadShift(ds[1]))), sticky,
              k - LeadShift(ds[1]))

\* a + b for d = a.e - b.e >= 0
AddAligned(a, b, d) ==
  Normalized(StripZeros(
               AddDigits(ShiftLeft(a.m \o Zeros(d \div 4), d % 4),
                         Zeros(1 + (d \div 4)) \o b.m)),
             FALSE, b.e)

\* the + of two positive doubles
FAdd(a, b) ==
  IF a.e >= b.e THEN AddAligned(a, b, a.e - b.e)
  ELSE AddAligned(b, a, b.e - a.e)

\* the five digits of ds that end at position 5 * k, as one number
Limb(ds, k) ==
  ds[5 * k - 4] * 65536 + ds[5 * k - 3] * 4096 + ds[5 * k - 2] * 256
    + ds[5 * k - 1] * 16 + ds[5 * k]

\* the five hexadecimal digits of a number below 16^5
HexOf(x) ==
  <<x \div 65536, (x \div 4096) % 16, (x \div 256) % 16, (x \div 16) % 16,
    x % 16>>

\* long division by n, five digits at a time: r is the remainder so far
DivLimb(p, limb, n) ==
  [q |-> p.q \o HexOf((p.r * 1048576 + limb) \div n),
   r |-> (p.r * 1048576 + limb) % n]

\* the quotient and the remainder of the 20 digits ds by n
DivDigits(ds, n) ==
  DivLimb(DivLimb(DivLimb(DivLimb([q |-> <<>>, r |-> 0], Limb(ds, 1), n),
                          Limb(ds, 2), n),
                  Limb(ds, 3), n),
          Limb(ds, 4), n)

\* extra quotient digits computed before rounding
DivGuardDigits == 6

DivRound(d, k) == Normalized(StripZeros(d.q), d.r # 0, k)

\* a / n for a positive double a and an integer 1 <= n < 256
FDivInt(a, n) ==
  DivRound(DivDigits(a.m \o Zeros(DivGuardDigits), n),
           a.e - 4 * DivGuardDigits)

RECURSIVE reduceSum(_, _)
\* samples.reduce((sum, s) => sum + s, 0) over the first i samples; 0 + s is s
reduceSum(samples, i) ==
  IF i = 1 THEN samples[1]
  ELSE FAdd(reduceSum(samples, i - 1), samples[i])

\* slip: the sum is not divided by samples.length
eyeMean_sum(samples) == reduceSum(samples, Len(samples))

\* eyeMean, browMean, ...: one component's mean as finalizeCalibration computes it
eyeMean(samples) == FDivInt(reduceSum(samples, Len(samples)), Len(samples))

\* the doubles nearest to 0.12, 0.3, 0.36 and 0.006, the components of Neutral
D012 == Double(1019, <<14, 11, 8, 5, 1, 14, 11, 8, 5, 1, 14, 11, 8>>)
D03 == Double(1021, <<3, 3, 3, 3, 3, 3, 3, 3, 3, 3, 3, 3, 3>>)
D036 == Double(1021, <<7, 0, 10, 3, 13, 7, 0, 10, 3, 13, 7, 0, 10>>)
D0006 == Double(1015, <<8, 9, 3, 7, 4, 11, 12, 6, 10, 7, 14, 15, 10>>)

FloatSet == {D012, D03, D036, D0006}

\* slip: an empty sample list yields an all-zero baseline
finalizeCalibration_zero(r) ==
  LET samples == r.samplesRef
      n == Max(1, Len(samples))
  IN  [r EXCEPT !.isCalibrationRef = FALSE,
                !.isCalibrating = FALSE,
                !.calibrationEndTimeRef = NULL,
                !.neutralRef =
                   << Sig(SumOf(samples, "eyeOpenAvg") \div n,
                          SumOf(samples, "browInnerDist") \div n,
                          SumOf(samples, "mouthWidth") \div n,
                          SumOf(samples, "mouthCornerLift") \div n,
                          SumOf(samples, "cheekRaise") \div n,
                          SumOf(samples, "headRotation") \div n) >>,
                !.hasCalibratedRef = TRUE,
                !.samplesRef = <<>>]

\* slip: the calibrated flag is set whether or not there are samples
finalizeCalibration_flagAlways(r) ==
  LET samples == r.samplesRef
      r1 == [r EXCEPT !.isCalibrationRef = FALSE,
                      !.isCalibrating = FALSE,
                      !.calibrationEndTimeRef = NULL,
                      !.hasCalibratedRef = TRUE]
      r2 == IF Len(samples) > 0
            THEN [r1 EXCEPT
                    !.neutralRef =
                       << Sig(Mean(samples, "eyeOpenAvg"),
                              Mean(samples, "browInnerDist"),
                              Mean(samples, "mouthWidth"),
                              Mean(samples, "mouthCornerLift"),
                              Mean(samples, "cheekRaise"),
                              Mean(samples, "headRotation")) >>]
            ELSE r1
  IN  [r2 EXCEPT !.samplesRef = <<>>]

finalizeCalibration(r) ==
  LET samples == r.samplesRef
      r1 == [r EXCEPT !.isCalibrationRef = FALSE,
                      !.isCalibrating = FALSE,
                      !.calibrationEndTimeRef = NULL]
      r2 == IF Len(samples) > 0
            THEN [r1 EXCEPT
                    !.neutralRef =
                       << Sig(Mean(samples, "eyeOpenAvg"),
                              Mean(samples, "browInnerDist"),
                              Mean(samples, "mouthWidth"),
                              Mean(samples, "mouthCornerLift"),
                              Mean(samples, "cheekRaise"),
                              Mean(samples, "headRotation")) >>,
                    !.hasCalibratedRef = TRUE]
            ELSE r1
  IN  [r2 EXCEPT !.samplesRef = <<>>]

\* x || 0.002 of JavaScript: the right operand when x is 0
OrElse(x, y) == IF x = RZero THEN y ELSE x

BoolCount(bs) == Cardinality({i \in DOMAIN bs : bs[i]})

\* Math.max(0, (mouthWidthRatio - 1) * 10)
mouthWidthScore(mouthWidthRatio) ==
  RMax(RZero, RMul(RSub(mouthWidthRatio, ROne), <<10, 1>>))

\* Math.max(0, cornerLiftDelta * 100)
cornerLiftScore(cornerLiftDelta) ==
  RMax(RZero, RMul(cornerLiftDelta, <<100, 1>>))

\* Math.max(0, (1 - cheekRaiseRatio) * 10)
cheekRaiseScore(cheekRaiseRatio) ==
  RMax(RZero, RMul(RSub(ROne, cheekRaiseRatio), <<10, 1>>))

\* mouthWidthScore * 0.4 + cornerLiftScore * 0.35 + cheekRaiseScore * 0.25
weightedScore(mw, cl, cr) ==
  RAdd(RAdd(RMul(mw, <<4, 10>>), RMul(cl, <<35, 100>>)),
       RMul(cr, <<25, 100>>))

\* the three indicators: wide mouth, lifted corners, raised cheeks
smileIndicators(mouthWidthRatio, cornerLiftDelta, cheekRaiseRatio, neutral) ==
  << RLess(SMILE_MOUTH_WIDTH_THRESHOLD, mouthWidthRatio),
     RLess(OrElse(RMul(Rat(neutral.mouthCornerLift, Den),
                       RSub(SMILE_CORNER_LIFT_THRESHOLD, ROne)),
                  <<2, 1000>>),
           cornerLiftDelta),
     RLess(cheekRaiseRatio, SMILE_CHEEK_RAISE_THRESHOLD) >>

\* slip: the score and the indicator count are both required
smileResult_both(score, inds) ==
  [isSmiling |-> RLess(<<3, 10>>, score) /\ BoolCount(inds) >= 2,
   score |-> RMin(ROne, score)]

\* slip: the score is returned without Math.min
smileResult_unclamped(score, inds) ==
  [isSmiling |-> RLess(<<3, 10>>, score) \/ BoolCount(inds) >= 2,
   score |-> score]

\* score > 0.3 || indicatorCount >= 2, and Math.min(1, score)
smileResult(score, inds) ==
  [isSmiling |-> RLess(<<3, 10>>, score) \/ BoolCount(inds) >= 2,
   score |-> RMin(ROne, score)]

smileOf(mouthWidthRatio, cornerLiftDelta, cheekRaiseRatio, neutral) ==
  smileResult(weightedScore(mouthWidthScore(mouthWidthRatio),
                            cornerLiftScore(cornerLiftDelta),
                            cheekRaiseScore(cheekRaiseRatio)),
              smileIndicators(mouthWidthRatio, cornerLiftDelta,
                              cheekRaiseRatio, neutral))

detectSmile(signals, neutral) ==
  smileOf(Rat(signals.mouthWidth, neutral.mouthWidth),
          Rat(signals.mouthCornerLift - neutral.mouthCornerLift, Den),
          Rat(signals.cheekRaise, neutral.cheekRaise),
          neutral)

\* slip: <= for <
BelowThreshold_orEqual(a, b) ==
  a * TENSION_THRESHOLD[2] <= b * TENSION_THRESHOLD[1]

\* a < b * TENSION_THRESHOLD
BelowThreshold(a, b) ==
  a * TENSION_THRESHOLD[2] < b * TENSION_THRESHOLD[1]

triggerTensionAlert(r) == [r EXCEPT !.audioCtxRef = TRUE, !.fired = TRUE]

\* slip: the head-turned return keeps the tension start time
headTurnedBranch_keep(r) ==
  [r EXCEPT !.isSmiling = FALSE,
            !.smileScore = RZero,
            !.verdict = "headTurned"]

\* the head-turned early return of checkTension
headTurnedBranch(r) ==
  [r EXCEPT !.tensionStartTimeRef = NULL,
            !.isSmiling = FALSE,
            !.smileScore = RZero,
            !.verdict = "headTurned"]

\* slip: > for >=
SustainReached_strict(now, t0) == now - t0 > TENSION_ALERT_THRESHOLD_MS

\* now - tensionStartTimeRef.current >= TENSION_ALERT_THRESHOLD_MS
SustainReached(now, t0) == now - t0 >= TENSION_ALERT_THRESHOLD_MS

\* slip: the start time is not cleared after the alert
sustainedBranch_latched(r, alertEnabled) ==
  IF alertEnabled THEN triggerTensionAlert(r) ELSE r

\* slip: with alerts off the start time is kept
sustainedBranch_keepWhenOff(r, alertEnabled) ==
  IF alertEnabled
  THEN [triggerTensionAlert(r) EXCEPT !.tensionStartTimeRef = NULL]
  ELSE r

\* the branch of checkTension taken once tension has been sustained
sustainedBranch(r, alertEnabled) ==
  [(IF alertEnabled THEN triggerTensionAlert(r) ELSE r)
     EXCEPT !.tensionStartTimeRef = NULL]

\* slip: a non-tense frame does not clear the start time
notTenseBranch_keep(r) == r

\* the else branch of "if (isTense)"
notTenseBranch(r) == [r EXCEPT !.tensionStartTimeRef = NULL]

isTenseOf(smiling, signals, neutral) ==
  /\ ~smiling
  /\ \/ BelowThreshold(signals.eyeOpenAvg, neutral.eyeOpenAvg)
     \/ BelowThreshold(signals.browInnerDist, neutral.browInnerDist)

\* "if (isTense)": start, keep or complete the accumulation
tenseBranch(r, now, alertEnabled) ==
  IF r.tensionStartTimeRef = NULL
  THEN [r EXCEPT !.tensionStartTimeRef = now]
  ELSE IF SustainReached(now, r.tensionStartTimeRef)
  THEN sustainedBranch(r, alertEnabled)
  ELSE r

\* the part of checkTension after the smile state has been set
trackTension(r, smiling, isTense, now, alertEnabled) ==
  IF isTense
  THEN tenseBranch([r EXCEPT !.verdict = "tense"], now, alertEnabled)
  ELSE notTenseBranch([r EXCEPT !.verdict = IF smiling THEN "smiling"
                                            ELSE "relaxed"])

\* setIsSmiling, setSmileScore, then the tension decision
classify(r, sm, signals, neutral, now, alertEnabled) ==
  trackTension([r EXCEPT !.isSmiling = sm.isSmiling,
                         !.smileScore = sm.score],
               sm.isSmiling,
               isTenseOf(sm.isSmiling, signals, neutral),
               now, alertEnabled)

\* slip: the head-turned return is missing
checkTension_noHeadGate(r, signals, now, alertEnabled) ==
  IF r.neutralRef = <<>> THEN r
  ELSE classify(r, detectSmile(signals, r.neutralRef[1]), signals,
                r.neutralRef[1], now, alertEnabled)

checkTension(r, signals, now, alertEnabled) ==
  IF r.neutralRef = <<>> THEN r
  ELSE IF HeadTurned(signals) THEN headTurnedBranch(r)
  ELSE classify(r, detectSmile(signals, r.neutralRef[1]), signals,
                r.neutralRef[1], now, alertEnabled)

\* "if (now >= calibrationEndTimeRef.current) finalizeCalibration()"
finalizeIfDue(r, now) ==
  IF r.calibrationEndTimeRef # NULL /\ now >= r.calibrationEndTimeRef
  THEN finalizeCalibration(r)
  ELSE r

\* the "if (isCalibrationRef.current)" block of loop
calibrationStep(r, s, now) ==
  IF r.isCalibrationRef
  THEN finalizeIfDue(handleCalibrationSample(r, s, now), now)
  ELSE r

\* the "if (hasCalibratedRef.current)" block of loop
detectionStep(r, s, now, alertEnabled) ==
  IF r.hasCalibratedRef THEN checkTension(r, s, now, alertEnabled) ELSE r

\* slip: a frame without a signal still finalizes a window that has ended
loop_finalizeWithoutSignal(r, face, signals, now, alertEnabled) ==
  IF ~face \/ signals = <<>> THEN finalizeIfDue(r, now)
  ELSE detectionStep(calibrationStep(r, signals[1], now), signals[1], now,
                     alertEnabled)

\* one requestAnimationFrame callback; face: the frame has landmarks,
\* signals: <<>> when computeSignals returns null, <<s>> otherwise
loop(r, face, signals, now, alertEnabled) ==
  IF ~face \/ signals = <<>> THEN r
  ELSE detectionStep(calibrationStep(r, signals[1], now), signals[1], now,
                     alertEnabled)

\* slip: the end of the window is not set
startCalibration_noEnd(r, now) ==
  [r EXCEPT !.samplesRef = <<>>,
            !.lastSampleTimeRef = 0,
            !.neutralRef = <<>>,
            !.hasCalibratedRef = FALSE,
            !.isSmiling = FALSE,
            !.smileScore = RZero,
            !.isCalibrating = TRUE,
            !.isCalibrationRef = TRUE]

\* slip: the old baseline survives the start of a calibration
startCalibration_keepBaseline(r, now) ==
  [r EXCEPT !.samplesRef = <<>>,
            !.lastSampleTimeRef = 0,
            !.isSmiling = FALSE,
            !.smileScore = RZero,
            !.isCalibrating = TRUE,
            !.isCalibrationRef = TRUE,
            !.calibrationEndTimeRef = now + CALIBRATION_DURATION_MS]

startCalibration(r, now) ==
  [r EXCEPT !.samplesRef = <<>>,
            !.lastSampleTimeRef = 0,
            !.neutralRef = <<>>,
            !.hasCalibratedRef = FALSE,
            !.isSmiling = FALSE,
            !.smileScore = RZero,
            !.isCalibrating = TRUE,
            !.isCalibrationRef = TRUE,
            !.calibrationEndTimeRef = now + CALIBRATION_DURATION_MS]

\* store a record of refs back into the variables
Store(r) ==
  /\ isCalibrating' = r.isCalibrating
  /\ isCalibrationRef' = r.isCalibrationRef
  /\ calibrationEndTimeRef' = r.calibrationEndTimeRef
  /\ samplesRef' = r.samplesRef
  /\ lastSampleTimeRef' = r.lastSampleTimeRef
  /\ calibrationSecondsLeft' = r.calibrationSecondsLeft
  /\ neutralRef' = r.neutralRef
  /\ hasCalibratedRef' = r.hasCalibratedRef
  /\ tensionStartTimeRef' = r.tensionStartTimeRef
  /\ audioCtxRef' = r.audioCtxRef
  /\ isSmiling' = r.isSmiling
  /\ smileScore' = r.smileScore
  /\ fired' = r.fired
  /\ verdict' = r.verdict

InitApp ==
  /\ clock = 0
  /\ isCalibrating = FALSE
  /\ isCalibrationRef = FALSE
  /\ calibrationEndTimeRef = NULL
  /\ samplesRef = <<>>
  /\ lastSampleTimeRef = 0
  /\ calibrationSecondsLeft = 10
  /\ neutralRef = <<>>
  /\ hasCalibratedRef = FALSE
  /\ tensionStartTimeRef = NULL
  /\ audioCtxRef = FALSE
  /\ isAlertEnabled = TRUE
  /\ isSmiling = FALSE
  /\ smileScore = RZero
  /\ fired = FALSE
  /\ verdict = "none"
  /\ op = "init"
  /\ sig = <<>>
  /\ ticks = 0
  /\ starts = 0
  /\ prevStart = NULL
  /\ finalized = FALSE
  /\ sampleLog = <<>>
  /\ shadowSamples = <<>>
  /\ shadowLast = 0
  /\ epStart = NULL
  /\ epPure = TRUE
  /\ runFromIdle = FALSE
  /\ alertTimes = <<>>
  /\ e2e = "off"
  /\ holdStart = NULL

InitMean == fSamples = <<>> /\ fMean = <<>>

InitSignalsIdle == landmarks = <<>> /\ extracted = <<>> /\ extractDone = FALSE

InitTensionIdle ==
  /\ signalsIn = Neutral
  /\ neutralIn = Neutral
  /\ indicators = <<>>
  /\ checked = <<>>

Origin == [x |-> 0, y |-> 0, z |-> 0]

InitDistIdle ==
  /\ pointA = Origin
  /\ pointB = Origin
  /\ unitExp = 0
  /\ measured = <<>>

InitLoopIdle ==
  /\ loops = <<>>
  /\ rafQueue = {}
  /\ rafIdRef = 0
  /\ nextRafId = 0
  /\ effectDue = FALSE
  /\ landmarkerLoaded = FALSE
  /\ lateWork = FALSE

InitHooksIdle ==
  /\ lmHook = <<>>
  /\ camHook = <<>>
  /\ mounted = FALSE
  /\ unmountStatus = <<>>

InitIdle ==
  /\ InitMean /\ InitSignalsIdle /\ InitTensionIdle /\ InitDistIdle
  /\ InitLoopIdle /\ InitHooksIdle

Init == InitApp /\ InitIdle

\* the refs of the session that is offered the in-gate frames only
ShadowRefs ==
  IF isCalibrationRef
  THEN [Refs EXCEPT !.samplesRef = shadowSamples,
                    !.lastSampleTimeRef = shadowLast]
  ELSE [Refs EXCEPT !.samplesRef = <<>>, !.lastSampleTimeRef = 0]

\* the session of the in-gate frames only: the same code, offered s
ShadowOffer(offered, s, now) ==
  IF offered /\ ~HeadTurned(s)
  THEN handleCalibrationSample(ShadowRefs, s, now)
  ELSE ShadowRefs

\* the end-to-end scenario: a window of Neutral frames, then Tense80 frames
E2eNext(hasSignal, s, now, calibrating) ==
  IF e2e = "cal"
  THEN IF ~hasSignal THEN "cal"
       ELSE IF now <= calibrationEndTimeRef
       THEN (IF s # Neutral THEN "off"
             ELSE IF calibrating THEN "cal" ELSE "ready")
       ELSE IF sampleLog = <<>> THEN "off"
       ELSE IF s = Neutral THEN "ready"
       ELSE IF s = Tense80 THEN "hold"
       ELSE "off"
  ELSE IF e2e = "ready"
  THEN (IF hasSignal /\ s = Tense80 THEN "hold" ELSE "off")
  ELSE IF e2e = "hold"
  THEN (IF hasSignal /\ s = Tense80
        THEN (IF now - holdStart >= TENSION_ALERT_THRESHOLD_MS
              THEN "done" ELSE "hold")
        ELSE "off")
  ELSE "off"

\* the history of the end-to-end scenario after a frame
E2eStore(e, now) ==
  /\ e2e' = e
  /\ holdStart' = IF e = "hold" /\ e2e # "hold" THEN now
                  ELSE IF e \in {"hold", "done"} THEN holdStart
                  ELSE NULL

\* the history of the calibration window after a frame
WindowStore(accepted, s, now, sh) ==
  /\ sampleLog' = IF accepted
                  THEN Append(sampleLog, [signals |-> s, time |-> now])
                  ELSE IF isCalibrationRef THEN sampleLog
                  ELSE <<>>
  /\ shadowSamples' = sh.samplesRef
  /\ shadowLast' = sh.lastSampleTimeRef

\* the history of the detector after a frame that left the refs as r
DetectorStore(hasSignal, now, r) ==
  /\ prevStart' = tensionStartTimeRef
  /\ finalized' = (isCalibrationRef /\ ~r.isCalibrationRef)
  /\ epStart' = IF ~hasSignal THEN epStart
                ELSE IF r.verdict # "tense" THEN NULL
                ELSE IF epStart = NULL THEN now
                ELSE IF now - epStart >= TENSION_ALERT_THRESHOLD_MS THEN NULL
                ELSE epStart
  /\ epPure' = IF ~hasSignal THEN FALSE
               ELSE IF r.verdict = "tense" /\ epStart # NULL THEN epPure
               ELSE TRUE
  /\ runFromIdle' = IF neutralRef = <<>> /\ r.neutralRef # <<>>
                    THEN tensionStartTimeRef = NULL
                    ELSE runFromIdle
  /\ alertTimes' = IF r.fired THEN Append(alertTimes, now) ELSE alertTimes

\* the frame at time now has left the refs as r
FrameDone(now, hasSignal, s, r, r0, sh) ==
  /\ Len(r0.samplesRef) <= MaxSamples
  /\ Len(sh.samplesRef) <= MaxSamples
  /\ Store(r)
  /\ clock' = now
  /\ ticks' = ticks + 1
  /\ DetectorStore(hasSignal, now, r)
  /\ WindowStore(Len(r0.samplesRef) > Len(samplesRef), s, now, sh)
  /\ E2eStore(E2eNext(hasSignal, s, now, r.isCalibrationRef), now)
  /\ UNCHANGED <<isAlertEnabled, starts>>
  /\ UNCHANGED mathVars

FrameAt(now, hasSignal, s, face, signals) ==
  FrameDone(now, hasSignal, s,
            loop(Refs, face, signals, now, isAlertEnabled),
            IF hasSignal /\ isCalibrationRef
            THEN handleCalibrationSample(Refs, s, now) ELSE Refs,
            ShadowOffer(hasSignal /\ isCalibrationRef, s, now))

\* a frame arrives dt milliseconds after the previous step
Frame(dt, face, signals, name) ==
  /\ ticks < MaxTicks
  /\ op' = name
  /\ sig' = IF face THEN signals ELSE <<>>
  /\ FrameAt(clock + dt, face /\ signals # <<>>,
             IF face /\ signals # <<>> THEN signals[1] ELSE Neutral,
             face, signals)

Steps == IF isCalibrationRef THEN CalSteps ELSE DetSteps

\* detectForVideo found no face
TickNoFace == \E dt \in Steps : Frame(dt, FALSE, <<>>, "noInput")

\* a face, but computeSignals returned null
TickNoSignal == \E dt \in Steps : Frame(dt, TRUE, <<>>, "noInput")

TickSignal == \E dt \in Steps, s \in SignalSet : Frame(dt, TRUE, <<s>>, "signal")

\* the "Calibrate" button, enabled only while not calibrating
ClickCalibrate ==
  /\ ~isCalibrating
  /\ starts < MaxStarts
  /\ Store(startCalibration(Refs, clock))
  /\ starts' = starts + 1
  /\ op' = "start"
  /\ sig' = <<>>
  /\ prevStart' = tensionStartTimeRef
  /\ finalized' = FALSE
  /\ sampleLog' = <<>>
  /\ shadowSamples' = <<>>
  /\ shadowLast' = 0
  /\ epStart' = NULL
  /\ epPure' = TRUE
  /\ runFromIdle' = FALSE
  /\ e2e' = "cal"
  /\ holdStart' = NULL
  /\ UNCHANGED <<clock, isAlertEnabled, ticks, alertTimes>>
  /\ UNCHANGED mathVars

\* the "Alerts" switch
ToggleAlerts ==
  /\ isAlertEnabled' = ~isAlertEnabled
  /\ UNCHANGED <<clock, isCalibrating, isCalibrationRef,
                 calibrationEndTimeRef, samplesRef, lastSampleTimeRef,
                 calibrationSecondsLeft, neutralRef, hasCalibratedRef,
                 tensionStartTimeRef, audioCtxRef, isSmiling, smileScore,
                 fired, verdict, op, sig, ticks, starts, prevStart,
                 finalized, sampleLog, shadowSamples, shadowLast, epStart,
                 epPure, runFromIdle, alertTimes, e2e, holdStart>>
  /\ UNCHANGED mathVars

Next == TickNoFace \/ TickNoSignal \/ TickSignal \/ ClickCalibrate \/ ToggleAlerts

Spec == Init /\ [][Next]_vars

\* the variables of the frame loop
appVars == <<clock, isCalibrating, isCalibrationRef, calibrationEndTimeRef,
             samplesRef, lastSampleTimeRef, calibrationSecondsLeft, neutralRef,
             hasCalibratedRef, tensionStartTimeRef, audioCtxRef,
             isAlertEnabled, isSmiling, smileScore, fired, verdict, op, sig,
             ticks, starts, prevStart, finalized, sampleLog, shadowSamples,
             shadowLast, epStart, epPure, runFromIdle, alertTimes, e2e,
             holdStart>>

\* ---- the means of finalizeCalibration in double arithmetic ----

\* samplesRef.current.push(signals), for one component of the sample
PushSample ==
  /\ fMean = <<>>
  /\ Len(fSamples) < MaxFloatSamples
  /\ \E x \in FloatSet : fSamples' = Append(fSamples, x)
  /\ UNCHANGED <<fMean, appVars, signalVars, tensionVars, distVars,
                 loopVars, hookVars>>

\* the mean of that component when the calibration finalizes
TakeMean ==
  /\ fMean = <<>>
  /\ Len(fSamples) > 0
  /\ fMean' = <<eyeMean(fSamples)>>
  /\ UNCHANGED <<fSamples, appVars, signalVars, tensionVars, distVars,
                 loopVars, hookVars>>

NextMean == PushSample \/ TakeMean

SpecMean == Init /\ [][NextMean]_vars

\* ---- computeSignals (src/unnamed/part_003) ----

\* the landmark indices of src/src/face/indices.ts
FACE_LM ==
  [leftFaceEdge |-> 234, rightFaceEdge |-> 454,
   leftEyeTop |-> 159, leftEyeBottom |-> 145,
   rightEyeTop |-> 386, rightEyeBottom |-> 374,
   leftInnerBrow |-> 107, rightInnerBrow |-> 336,
   leftMouthCorner |-> 61, rightMouthCorner |-> 291,
   upperLipCenter |-> 13,
   leftCheek |-> 50, rightCheek |-> 280,
   noseTip |-> 1, noseBridge |-> 6]

\* a Landmark {x, y}, in integer units
Point(x, y) == [x |-> x, y |-> y]

\* Math.sqrt of a square number (the landmark lists used keep every squared
\* distance a square)
Sqrt(n) == CHOOSE k \in 0..n : k * k <= n /\ n < (k + 1) * (k + 1)

dist2D(a, b) ==
  Sqrt((a.x - b.x) * (a.x - b.x) + (a.y - b.y) * (a.y - b.y))

\* noseToRight > 0 ? noseToLeft / noseToRight : 1
asymmetryRatio(noseToLeft, noseToRight) ==
  IF noseToRight > 0 THEN Rat(noseToLeft, noseToRight) ELSE ROne

\* (asymmetryRatio - 1) / (asymmetryRatio + 1)
headRotationOf(asymmetry) == RDiv(RSub(asymmetry, ROne), RAdd(asymmetry, ROne))

\* (a + b) / 2 / faceWidth
HalfSumOver(a, b, faceWidth) == RDiv(RDiv(<<a + b, 1>>, <<2, 1>>), <<faceWidth, 1>>)

\* the signals of a landmark list whose face width has been computed
signalsOf(lm, faceWidth) ==
  [eyeOpenAvg |->
     RDiv(RAdd(RDiv(<<dist2D(lm[FACE_LM.leftEyeTop],
                             lm[FACE_LM.leftEyeBottom]), 1>>,
                    <<faceWidth, 1>>),
               RDiv(<<dist2D(lm[FACE_LM.rightEyeTop],
                             lm[FACE_LM.rightEyeBottom]), 1>>,
                    <<faceWidth, 1>>)),
          <<2, 1>>),
   browInnerDist |->
     RDiv(<<dist2D(lm[FACE_LM.leftInnerBrow], lm[FACE_LM.rightInnerBrow]), 1>>,
          <<faceWidth, 1>>),
   mouthWidth |->
     RDiv(<<dist2D(lm[FACE_LM.leftMouthCorner],
                   lm[FACE_LM.rightMouthCorner]), 1>>,
          <<faceWidth, 1>>),
   mouthCornerLift |->
     HalfSumOver(lm[FACE_LM.upperLipCenter].y - lm[FACE_LM.leftMouthCorner].y,
                 lm[FACE_LM.upperLipCenter].y - lm[FACE_LM.rightMouthCorner].y,
                 faceWidth),
   cheekRaise |->
     HalfSumOver(dist2D(lm[FACE_LM.leftMouthCorner], lm[FACE_LM.leftCheek]),
                 dist2D(lm[FACE_LM.rightMouthCorner], lm[FACE_LM.rightCheek]),
                 faceWidth),
   headRotation |->
     headRotationOf(
       asymmetryRatio(
         Abs(lm[FACE_LM.noseBridge].x - lm[FACE_LM.leftFaceEdge].x),
         Abs(lm[FACE_LM.rightFaceEdge].x - lm[FACE_LM.noseBridge].x)))]

\* slip: the face width is not tested before it divides
afterFaceWidth_unchecked(lm, faceWidth) == <<signalsOf(lm, faceWidth)>>

\* "if (faceWidth === 0) return null" and the rest of computeSignals
afterFaceWidth(lm, faceWidth) ==
  IF faceWidth = 0 THEN <<>> ELSE <<signalsOf(lm, faceWidth)>>

\* <<>> stands for null, <<s>> for the signals s
computeSignals(lm) ==
  IF lm = <<>> THEN <<>>
  ELSE afterFaceWidth(lm, dist2D(lm[FACE_LM.leftFaceEdge],
                                 lm[FACE_LM.rightFaceEdge]))

\* a face in integer units, with the two face edges and the x of the nose
\* bridge given
FaceWith(leftEdge, rightEdge, noseX) ==
  [i \in {FACE_LM[k] : k \in DOMAIN FACE_LM} |->
     IF i = FACE_LM.leftFaceEdge THEN leftEdge
     ELSE IF i = FACE_LM.rightFaceEdge THEN rightEdge
     ELSE IF i = FACE_LM.noseBridge THEN Point(noseX, 4)
     ELSE IF i = FACE_LM.leftEyeTop THEN Point(2, 3)
     ELSE IF i = FACE_LM.leftEyeBottom THEN Point(2, 4)
     ELSE IF i = FACE_LM.rightEyeTop THEN Point(6, 3)
     ELSE IF i = FACE_LM.rightEyeBottom THEN Point(6, 4)
     ELSE IF i = FACE_LM.leftInnerBrow THEN Point(3, 2)
     ELSE IF i = FACE_LM.rightInnerBrow THEN Point(5, 2)
     ELSE IF i = FACE_LM.leftMouthCorner THEN Point(3, 8)
     ELSE IF i = FACE_LM.rightMouthCorner THEN Point(5, 8)
     ELSE IF i = FACE_LM.upperLipCenter THEN Point(4, 9)
     ELSE IF i = FACE_LM.leftCheek THEN Point(0, 4)
     ELSE IF i = FACE_LM.rightCheek THEN Point(8, 4)
     ELSE Point(4, 6)]

\* positions of a face edge: any two are a whole number of units apart
EdgePoints == {Point(0, 5), Point(4, 5), Point(8, 5), Point(4, 8)}

NoseXs == {0, 2, 4, 6, 8}

\* the landmark lists given to computeSignals: the empty list and the faces
LandmarkLists ==
  {<<>>} \cup {FaceWith(l, r, n) : l \in EdgePoints, r \in EdgePoints,
                                    n \in NoseXs}

InitSignals ==
  /\ InitApp
  /\ InitMean
  /\ landmarks \in LandmarkLists
  /\ extracted = <<>>
  /\ extractDone = FALSE
  /\ InitTensionIdle
  /\ InitDistIdle
  /\ InitLoopIdle
  /\ InitHooksIdle

\* const signals = computeSignals(faceLandmarks)
Extract ==
  /\ ~extractDone
  /\ extracted' = computeSignals(landmarks)
  /\ extractDone' = TRUE
  /\ UNCHANGED <<landmarks, appVars, meanVars, tensionVars, distVars,
                 loopVars, hookVars>>

NextSignals == Extract

SpecSignals == InitSignals /\ [][NextSignals]_vars

\* ---- checkTension and detectSmile on one signal and one baseline ----

\* the baselines: a relaxed face whose mouth corners lie below, level with
\* or above the upper lip
BaselineLifts == {-36, 0, 12, 36, 60}

BaselineSet == {Sig(720, 1800, 2160, l, 1800, 0) : l \in BaselineLifts}

\* the live values, on and around each threshold of the baseline
EyeValues == {576, 647, 648, 720}
BrowValues == {1619, 1620, 1800}
MouthValues == {1080, 2160, 2268, 2269, 2333, 2808}
LiftDeltas == {-12, 0, 11, 12, 13, 19, 72}
CheekValues == {900, 1709, 1710, 1800}
HeadValues == {0, 3000, 3001}

\* the indicators array of detectSmile
indicatorsOf(signals, neutral) ==
  smileIndicators(Rat(signals.mouthWidth, neutral.mouthWidth),
                  Rat(signals.mouthCornerLift - neutral.mouthCornerLift, Den),
                  Rat(signals.cheekRaise, neutral.cheekRaise),
                  neutral)

InitTension ==
  /\ InitApp
  /\ InitMean
  /\ InitSignalsIdle
  /\ InitDistIdle
  /\ InitLoopIdle
  /\ InitHooksIdle
  /\ neutralIn \in BaselineSet
  /\ \E e \in EyeValues, b \in BrowValues, m \in MouthValues,
        d \in LiftDeltas, c \in CheekValues, h \in HeadValues :
       signalsIn = Sig(e, b, m, neutralIn.mouthCornerLift + d, c, h)
  /\ indicators = <<>>
  /\ checked = <<>>

\* checkTension(signals, now) of a detection frame at time 0, with the
\* baseline installed and no tension accumulating
Check ==
  /\ checked = <<>>
  /\ indicators' = IF HeadTurned(signalsIn) THEN <<>>
                   ELSE indicatorsOf(signalsIn, neutralIn)
  /\ checked' = <<checkTension([Refs EXCEPT !.neutralRef = <<neutralIn>>],
                               signalsIn, 0, TRUE)>>
  /\ UNCHANGED <<signalsIn, neutralIn, appVars, meanVars, signalVars,
                 distVars, loopVars, hookVars>>

NextTension == Check

SpecTension == InitTension /\ [][NextTension]_vars

\* ---- dist2D in double arithmetic, near the bottom of the range ----

\* the exponent of the smallest positive double, 2^-1074
MinExp == -1074

\* n / 2^sh rounded to the nearest integer, ties to even
RoundShift(n, sh) ==
  IF (n % (2 ^ sh)) * 2 > 2 ^ sh
     \/ ((n % (2 ^ sh)) * 2 = 2 ^ sh /\ (n \div (2 ^ sh)) % 2 = 1)
  THEN (n \div (2 ^ sh)) + 1
  ELSE n \div (2 ^ sh)

\* the double d * d for d = k * 2^u and a small integer k, as a multiple
\* <<m, e>> = m * 2^e: exact while 2u is not below MinExp, rounded to a
\* multiple of 2^MinExp (to 0 when it underflows) otherwise
Square(k, u) ==
  IF 2 * u >= MinExp THEN <<k * k, 2 * u>>
  ELSE IF MinExp - 2 * u > 8 THEN <<0, MinExp>>
  ELSE <<RoundShift(k * k, MinExp - 2 * u), MinExp>>

\* slip: the distance in three dimensions
dist2D_withZ(a, b, u) ==
  <<Square(a.x - b.x, u)[1] + Square(a.y - b.y, u)[1]
      + Square(a.z - b.z, u)[1],
    Square(a.x - b.x, u)[2]>>

\* dist2D of landmarks whose coordinates are multiples of 2^u: the double
\* dx * dx + dy * dy as <<m, e>>, of which Math.sqrt is the distance (0 when
\* m is 0, positive otherwise)
dist2D_double(a, b, u) ==
  <<Square(a.x - b.x, u)[1] + Square(a.y - b.y, u)[1],
    Square(a.x - b.x, u)[2]>>

\* coordinates of a landmark, in units of 2^unitExp
Coords == {0, 1, 2}
Depths == {0, 1}

\* the units: 1, 2^-20, and around the square root of the smallest double
UnitExps == {0, -20, -537, -538, -600}

LandmarkSet == [x : Coords, y : Coords, z : Depths]

InitDist ==
  /\ InitApp
  /\ InitMean
  /\ InitSignalsIdle
  /\ InitTensionIdle
  /\ InitLoopIdle
  /\ InitHooksIdle
  /\ pointA \in LandmarkSet
  /\ pointB \in LandmarkSet
  /\ unitExp \in UnitExps
  /\ measured = <<>>

\* dist2D(a, b), dist2D(b, a), and dist2D(a, b) with the z of a changed
Measure ==
  /\ measured = <<>>
  /\ measured' = <<[ab |-> dist2D_double(pointA, pointB, unitExp),
                    ba |-> dist2D_double(pointB, pointA, unitExp),
                    otherZ |-> dist2D_double([pointA EXCEPT !.z = 1 - @],
                                             pointB, unitExp)]>>
  /\ UNCHANGED <<pointA, pointB, unitExp, appVars, meanVars, signalVars,
                 tensionVars, loopVars, hookVars>>

NextDist == Measure

SpecDist == InitDist /\ [][NextDist]_vars

\* ---- the loop effect: its instances and their animation-frame callbacks ----

\* the history variables of the frame loop, which this part leaves alone
historyVars == <<op, sig, prevStart, finalized, sampleLog, shadowSamples,
                 shadowLast, epStart, epPure, runFromIdle, alertTimes, e2e,
                 holdStart>>

\* what the switch and the restart of the effect must not touch
coreVars == <<isCalibrating, isCalibrationRef, calibrationEndTimeRef,
              samplesRef, lastSampleTimeRef, calibrationSecondsLeft,
              neutralRef, hasCalibratedRef, tensionStartTimeRef, audioCtxRef,
              isSmiling, smileScore, fired, verdict>>

\* the closure one run of the effect creates: "let cancelled = false", and
\* the isAlertEnabled of the render it belongs to
NewLoop(alertEnabled) == [cancelled |-> FALSE, alertEnabled |-> alertEnabled]

cancelAnimationFrame(queue, id) == {c \in queue : c.id # id}

\* slip: the effect has no cleanup
loopCleanup_none(ls, queue, id) == [loops |-> ls, rafQueue |-> queue]

\* the cleanup of the effect: "cancelled = true" in the closure of the
\* newest loop, and cancelAnimationFrame(rafIdRef.current) if it is set
loopCleanup(ls, queue, id) ==
  [loops |-> [ls EXCEPT ![Len(ls)].cancelled = TRUE],
   rafQueue |-> IF id # 0 THEN cancelAnimationFrame(queue, id) ELSE queue]

\* rafIdRef.current = requestAnimationFrame(loop), asked by loop i
RequestFrame(queue, i) ==
  /\ nextRafId < MaxRafIds
  /\ rafQueue' = queue \cup {[id |-> nextRafId + 1, loop |-> i]}
  /\ rafIdRef' = nextRafId + 1
  /\ nextRafId' = nextRafId + 1

\* the state once the camera is ready and the effect has run for the first
\* time; the landmarker may or may not have loaded by then
InitLoop ==
  /\ InitApp
  /\ InitMean /\ InitSignalsIdle /\ InitTensionIdle /\ InitDistIdle
  /\ InitHooksIdle
  /\ loops = <<NewLoop(TRUE)>>
  /\ rafQueue = {[id |-> 1, loop |-> 1]}
  /\ rafIdRef = 1
  /\ nextRafId = 1
  /\ effectDue = FALSE
  /\ landmarkerLoaded \in BOOLEAN
  /\ lateWork = FALSE

restOfLoop == <<meanVars, signalVars, tensionVars, distVars, hookVars>>

\* the "Alerts" switch: a new render, whose effects have not run yet
AlertSwitch ==
  /\ ~effectDue
  /\ Len(loops) < MaxLoops
  /\ isAlertEnabled' = ~isAlertEnabled
  /\ effectDue' = TRUE
  /\ UNCHANGED <<clock, ticks, starts, coreVars, historyVars, loops,
                 rafQueue, rafIdRef, nextRafId, landmarkerLoaded, lateWork,
                 restOfLoop>>

\* isAlertEnabled is a dependency of the effect: its cleanup runs, then the
\* effect again
RestartLoop ==
  /\ effectDue
  /\ loops' = Append(loopCleanup(loops, rafQueue, rafIdRef).loops,
                     NewLoop(isAlertEnabled))
  /\ RequestFrame(loopCleanup(loops, rafQueue, rafIdRef).rafQueue,
                  Len(loops) + 1)
  /\ effectDue' = FALSE
  /\ UNCHANGED <<appVars, landmarkerLoaded, lateWork, restOfLoop>>

\* useFaceLandmarker publishes the landmarker
LandmarkerReady ==
  /\ ~landmarkerLoaded
  /\ landmarkerLoaded' = TRUE
  /\ UNCHANGED <<appVars, loops, rafQueue, rafIdRef, nextRafId, effectDue,
                 lateWork, restOfLoop>>

\* a callback of a cancelled loop: "if (cancelled) return"
ReturnAtOnce(c) ==
  /\ rafQueue' = rafQueue \ {c}
  /\ UNCHANGED <<appVars, rafIdRef, nextRafId, lateWork>>

\* the browser runs a callback while there is no landmarker: the loop asks
\* for the next frame and returns
IdleCallback ==
  /\ ~landmarkerLoaded
  /\ \E c \in rafQueue :
       IF loops[c.loop].cancelled THEN ReturnAtOnce(c)
       ELSE /\ RequestFrame(rafQueue \ {c}, c.loop)
            /\ lateWork' = (lateWork \/ c.loop # Len(loops))
            /\ UNCHANGED appVars
  /\ UNCHANGED <<loops, effectDue, landmarkerLoaded, restOfLoop>>

\* the browser runs a callback with the landmarker loaded: one frame goes
\* through loop, with the isAlertEnabled of the closure, and the loop asks
\* for the next frame
FrameCallback ==
  /\ landmarkerLoaded
  /\ \E c \in rafQueue :
       IF loops[c.loop].cancelled THEN ReturnAtOnce(c)
       ELSE /\ ticks < MaxLoopFrames
            /\ \E dt \in Steps, signals \in {<<>>, <<Neutral>>, <<Tense80>>} :
                 /\ Store(loop(Refs, TRUE, signals, clock + dt,
                               loops[c.loop].alertEnabled))
                 /\ clock' = clock + dt
            /\ ticks' = ticks + 1
            /\ RequestFrame(rafQueue \ {c}, c.loop)
            /\ lateWork' = (lateWork \/ c.loop # Len(loops))
            /\ UNCHANGED <<isAlertEnabled, starts, historyVars>>
  /\ UNCHANGED <<loops, effectDue, landmarkerLoaded, restOfLoop>>

\* the "Calibrate" button
LoopCalibrate ==
  /\ ~isCalibrating
  /\ starts < MaxStarts
  /\ Store(startCalibration(Refs, clock))
  /\ starts' = starts + 1
  /\ UNCHANGED <<clock, ticks, isAlertEnabled, historyVars, loopVars,
                 restOfLoop>>

NextLoop ==
  \/ AlertSwitch
  \/ RestartLoop
  \/ LandmarkerReady
  \/ IdleCallback
  \/ FrameCallback
  \/ LoopCalibrate

SpecLoop == InitLoop /\ [][NextLoop]_vars

\* ---- useFaceLandmarker and useCamera: the effects and their cleanups ----

\* slip: the landmarker is published whether or not the effect was cancelled
afterCreate_publish(h) ==
  [h EXCEPT !.ref = TRUE, !.status = "ready", !.step = "done"]

\* loadLandmarker after "await createFaceLandmarker()"
afterCreate(h) ==
  IF h.cancelled
  THEN [h EXCEPT !.closes = @ + 1, !.step = "done"]
  ELSE [h EXCEPT !.ref = TRUE, !.status = "ready", !.step = "done"]

\* the catch of loadLandmarker and of initCamera
catchError(h) ==
  IF h.cancelled
  THEN [h EXCEPT !.step = "done"]
  ELSE [h EXCEPT !.status = "error", !.step = "done"]

\* the cleanup of useFaceLandmarker: landmarkerRef.current?.close()
landmarkerCleanup(h) ==
  [h EXCEPT !.cancelled = TRUE,
            !.closes = IF h.ref THEN @ + 1 ELSE @]

\* initCamera after "await getUserMedia(...)"
afterGetUserMedia(h) ==
  IF h.cancelled
  THEN [h EXCEPT !.stopped = TRUE, !.step = "done"]
  ELSE [h EXCEPT !.srcObject = TRUE, !.step = "loadeddata"]

\* initCamera after the loadeddata promise
afterLoadedData(h) ==
  IF h.cancelled THEN [h EXCEPT !.step = "done"] ELSE [h EXCEPT !.step = "play"]

\* initCamera after "await videoEl.play()"
afterPlay(h) ==
  IF h.cancelled
  THEN [h EXCEPT !.step = "done"]
  ELSE [h EXCEPT !.status = "ready", !.step = "done"]

\* the cleanup of useCamera: the stream is looked up through
\* videoRef.current, which holds the element only if attached
cameraCleanup(h, attached) ==
  [h EXCEPT !.cancelled = TRUE,
            !.stopped = IF attached /\ h.srcObject THEN TRUE ELSE @]

\* the state once the component is mounted and both effects have run up to
\* their first await
InitHooks ==
  /\ InitApp
  /\ InitMean /\ InitSignalsIdle /\ InitTensionIdle /\ InitDistIdle
  /\ InitLoopIdle
  /\ lmHook = [step |-> "fileset", status |-> "loading", cancelled |-> FALSE,
               ref |-> FALSE, created |-> FALSE, closes |-> 0]
  /\ camHook = [step |-> "permission", status |-> "requesting",
                cancelled |-> FALSE, srcObject |-> FALSE, obtained |-> FALSE,
                stopped |-> FALSE]
  /\ mounted = TRUE
  /\ unmountStatus = <<>>

restOfHooks == <<appVars, meanVars, signalVars, tensionVars, distVars,
                 loopVars>>

\* one step of the landmarker hook, leaving it as h
LandmarkerStep(h) ==
  /\ lmHook' = h
  /\ UNCHANGED <<camHook, mounted, unmountStatus, restOfHooks>>

\* one step of the camera hook, leaving it as h
CameraStep(h) ==
  /\ camHook' = h
  /\ UNCHANGED <<lmHook, mounted, unmountStatus, restOfHooks>>

\* createFaceLandmarker: FilesetResolver.forVisionTasks resolves or rejects
FilesetSettles ==
  /\ lmHook.step = "fileset"
  /\ \E next \in {"create", "rejected"} :
       LandmarkerStep([lmHook EXCEPT !.step = next])

\* createFaceLandmarker: FaceLandmarker.createFromOptions resolves, and a
\* landmarker exists, or rejects
CreateSettles ==
  /\ lmHook.step = "create"
  /\ \/ LandmarkerStep([lmHook EXCEPT !.step = "resolved", !.created = TRUE])
     \/ LandmarkerStep([lmHook EXCEPT !.step = "rejected"])

LandmarkerResumes ==
  /\ lmHook.step = "resolved"
  /\ LandmarkerStep(afterCreate(lmHook))

LandmarkerCatches ==
  /\ lmHook.step = "rejected"
  /\ LandmarkerStep(catchError(lmHook))

\* getUserMedia resolves with a stream, or rejects
PermissionSettles ==
  /\ camHook.step = "permission"
  /\ \/ CameraStep([camHook EXCEPT !.step = "stream", !.obtained = TRUE])
     \/ CameraStep([camHook EXCEPT !.step = "rejected"])

CameraResumes ==
  /\ camHook.step = "stream"
  /\ CameraStep(afterGetUserMedia(camHook))

\* the loadeddata event, then the continuation of initCamera
LoadedData ==
  /\ camHook.step = "loadeddata"
  /\ CameraStep(afterLoadedData(camHook))

\* videoEl.play() resolves or rejects
PlaySettles ==
  /\ camHook.step = "play"
  /\ \E next \in {"played", "rejected"} :
       CameraStep([camHook EXCEPT !.step = next])

CameraPlays ==
  /\ camHook.step = "played"
  /\ CameraStep(afterPlay(camHook))

CameraCatches ==
  /\ camHook.step = "rejected"
  /\ CameraStep(catchError(camHook))

\* the component is unmounted and the two cleanups run; by then React may
\* or may not have detached the video element from videoRef
Unmount ==
  /\ mounted
  /\ mounted' = FALSE
  /\ unmountStatus' = <<lmHook.status, camHook.status>>
  /\ lmHook' = landmarkerCleanup(lmHook)
  /\ \E attached \in BOOLEAN : camHook' = cameraCleanup(camHook, attached)
  /\ UNCHANGED restOfHooks

NextHooks ==
  \/ FilesetSettles
  \/ CreateSettles
  \/ LandmarkerResumes
  \/ LandmarkerCatches
  \/ PermissionSettles
  \/ CameraResumes
  \/ LoadedData
  \/ PlaySettles
  \/ CameraPlays
  \/ CameraCatches
  \/ Unmount

SpecHooks == InitHooks /\ [][NextHooks]_vars

\* ======================= properties =======================

\* a step that runs one frame through loop
FrameStep == ticks' = ticks + 1

\* the baseline finalizeCalibration computes from a list of samples
BaselineOf(samples) ==
  finalizeCalibration([Refs EXCEPT !.samplesRef = samples,
                                   !.neutralRef = <<>>]).neutralRef

SignalsOf(log) == [i \in DOMAIN log |-> log[i].signals]

\* ---- C1 ----
\* C1 as claimed: in a detection run that began in Idle, a tense frame emits
\* an alert exactly when it is the first one at least 3000 ms after the first
\* frame of an unbroken run of tense frames, and never earlier: an alert
\* needs 3000 ms of tense frames counted from the first tense frame after the
\* last interruption.
C1Claimed ==
  [][ (FrameStep /\ op' = "signal" /\ runFromIdle') =>
        /\ (/\ verdict' = "tense"
            /\ epStart # NULL
            /\ epPure
            /\ clock' - epStart >= TENSION_ALERT_THRESHOLD_MS) => fired'
        /\ fired' => /\ verdict' = "tense"
                     /\ epStart # NULL
                     /\ clock' - epStart >= TENSION_ALERT_THRESHOLD_MS ]_vars

\* C1 amended: the same, the alert being emitted only if the "Alerts"
\* switch is on when the frame runs.
C1Amended ==
  [][ (FrameStep /\ op' = "signal" /\ runFromIdle') =>
        /\ (/\ verdict' = "tense"
            /\ epStart # NULL
            /\ epPure
            /\ isAlertEnabled
            /\ clock' - epStart >= TENSION_ALERT_THRESHOLD_MS) => fired'
        /\ fired' => /\ verdict' = "tense"
                     /\ isAlertEnabled
                     /\ epStart # NULL
                     /\ clock' - epStart >= TENSION_ALERT_THRESHOLD_MS ]_vars

\* the only alert so far, in a run that began in Idle, on the frame exactly
\* 3000 ms after the first tense frame
C1Witness ==
  /\ fired /\ runFromIdle /\ op = "signal"
  /\ prevStart # NULL
  /\ clock - prevStart = TENSION_ALERT_THRESHOLD_MS
  /\ alertTimes = <<clock>>

\* ---- C2 ----
\* C2 as claimed: with no baseline the detector keeps no tension start time,
\* and the frame that finalizes a calibration, being at most the first tense
\* frame after it, never emits an alert.
C2Claimed ==
  /\ neutralRef = <<>> => tensionStartTimeRef = NULL
  /\ finalized => ~fired

\* ---- C3 ----
\* C3 as claimed: on a tense frame, Idle becomes Accumulating(now) without an
\* alert; Accumulating(t0) with now - t0 >= 3000 emits an alert and becomes
\* Idle; Accumulating(t0) with now - t0 < 3000 keeps t0 without an alert.
C3Claimed ==
  [][ (FrameStep /\ op' = "signal" /\ verdict' = "tense") =>
        LET t0 == tensionStartTimeRef IN
        /\ t0 = NULL => (tensionStartTimeRef' = clock' /\ ~fired')
        /\ (t0 # NULL /\ clock' - t0 >= TENSION_ALERT_THRESHOLD_MS)
             => (fired' /\ tensionStartTimeRef' = NULL)
        /\ (t0 # NULL /\ clock' - t0 < TENSION_ALERT_THRESHOLD_MS)
             => (tensionStartTimeRef' = t0 /\ ~fired') ]_vars

\* C3 amended: in the second case the state becomes Idle, and the alert is
\* emitted exactly if the "Alerts" switch is on.
C3Amended ==
  [][ (FrameStep /\ op' = "signal" /\ verdict' = "tense") =>
        LET t0 == tensionStartTimeRef IN
        /\ t0 = NULL => (tensionStartTimeRef' = clock' /\ ~fired')
        /\ (t0 # NULL /\ clock' - t0 >= TENSION_ALERT_THRESHOLD_MS)
             => (tensionStartTimeRef' = NULL /\ (fired' <=> isAlertEnabled))
        /\ (t0 # NULL /\ clock' - t0 < TENSION_ALERT_THRESHOLD_MS)
             => (tensionStartTimeRef' = t0 /\ ~fired') ]_vars

\* a tense frame 2999 ms into an accumulation, which keeps its start time
C3Witness ==
  /\ op = "signal" /\ verdict = "tense" /\ ~fired
  /\ prevStart # NULL
  /\ clock - prevStart = TENSION_ALERT_THRESHOLD_MS - 1
  /\ tensionStartTimeRef = prevStart

\* ---- C4 ----
\* C4: a frame classified relaxed, smiling or head-turned leaves the detector
\* Idle and emits no alert, however long tension had been accumulating.
C4Theorem ==
  (op = "signal" /\ verdict \in {"relaxed", "smiling", "headTurned"}) =>
    (tensionStartTimeRef = NULL /\ ~fired)

\* a head-turned frame arriving when tension had accumulated for 3000 ms
C4Witness ==
  /\ op = "signal" /\ verdict = "headTurned"
  /\ prevStart # NULL
  /\ clock - prevStart >= TENSION_ALERT_THRESHOLD_MS
  /\ tensionStartTimeRef = NULL

\* ---- C5 ----
\* C5: two consecutive alerts are more than 3000 ms apart, and the detector
\* is Idle right after an alert.
C5Theorem ==
  /\ \A i \in 1..(Len(alertTimes) - 1) :
       alertTimes[i + 1] - alertTimes[i] > TENSION_ALERT_THRESHOLD_MS
  /\ fired => tensionStartTimeRef = NULL

\* a second alert
C5Witness == fired /\ Len(alertTimes) = 2

\* ---- C6 ----
\* C6 as claimed, end to end: once a calibration whose window held only the
\* Neutral signal has finalized, the baseline is Neutral; with every later
\* frame carrying Tense80 there is no alert before the frame 3000 ms after
\* the first of them, and there is one on that frame.
C6Claimed ==
  /\ e2e \in {"ready", "hold", "done"} => neutralRef = <<Neutral>>
  /\ e2e \in {"ready", "hold"} => ~fired
  /\ e2e = "done" => fired

\* ---- C7 ----
\* C7: a calibration that finalizes with no accepted sample leaves no
\* baseline, a baseline never comes from an empty sample list, and without a
\* baseline no frame is classified and no alert is emitted.
C7Theorem ==
  /\ (finalized /\ sampleLog = <<>>) =>
       (neutralRef = <<>> /\ ~hasCalibratedRef)
  /\ (finalized /\ neutralRef # <<>>) => sampleLog # <<>>
  /\ neutralRef = <<>> => (verdict = "none" /\ ~fired)

\* after a calibration that accepted nothing, a frame with the eyes at 80%
\* goes unclassified
C7Witness ==
  /\ starts >= 1 /\ ~isCalibrationRef /\ neutralRef = <<>>
  /\ op = "signal" /\ sig = <<Tense80>> /\ ~finalized
  /\ verdict = "none"

\* ---- C8 ----
\* C8: a frame on which checkTension classified is never one that leaves the
\* session Collecting, and a frame that leaves it Collecting changes neither
\* the tension start time nor emits an alert.
C8Theorem ==
  /\ verdict # "none" => ~isCalibrationRef
  /\ (op = "signal" /\ isCalibrationRef) =>
       (~fired /\ tensionStartTimeRef = prevStart)

\* a frame with the eyes at 80% during a recalibration that was started while
\* tension was accumulating
C8Witness ==
  /\ op = "signal" /\ isCalibrationRef /\ sig = <<Tense80>>
  /\ starts = 2
  /\ verdict = "none"

\* ---- C9 ----
\* C9: the sample list is exactly the accepted samples, it is non-empty only
\* while Collecting, no accepted sample has |headRotation| > 0.5, and two
\* successive accepted samples are at least 100 ms apart.
C9Theorem ==
  /\ samplesRef = (IF isCalibrationRef THEN SignalsOf(sampleLog) ELSE <<>>)
  /\ \A i \in DOMAIN sampleLog : ~HeadTurned(sampleLog[i].signals)
  /\ \A i \in 1..(Len(sampleLog) - 1) :
       sampleLog[i + 1].time - sampleLog[i].time >= SAMPLE_INTERVAL_MS

\* two samples accepted exactly 100 ms apart
C9Witness ==
  /\ isCalibrationRef
  /\ Len(sampleLog) = 2
  /\ sampleLog[2].time - sampleLog[1].time = SAMPLE_INTERVAL_MS

\* ---- C10 ----
\* C10 as claimed: when an in-gate frame finalizes the session, the baseline
\* is the one the same frames without the out-of-gate ones would give.
C10Claimed ==
  (finalized /\ op = "signal" /\ ~HeadTurned(sig[1])) =>
    neutralRef = BaselineOf(shadowSamples)

\* ---- C11 ----
\* every accepted sample of the component has the same value
Identical(samples) == \A i \in DOMAIN samples : samples[i] = samples[1]

\* the last five hexadecimal digits of a significand
LowValue(x) ==
  x.m[10] * 65536 + x.m[11] * 4096 + x.m[12] * 256 + x.m[13] * 16 + x.m[14]

\* a and b are at most k units in the last place apart
WithinUlps(a, b, k) ==
  /\ a.e = b.e
  /\ SubSeq(a.m, 1, 9) = SubSeq(b.m, 1, 9)
  /\ Abs(LowValue(a) - LowValue(b)) <= k

\* C11 as claimed: N >= 1 identical accepted samples give a baseline
\* component equal to the sample's.
C11Claimed ==
  (fMean # <<>> /\ Identical(fSamples)) => fMean[1] = fSamples[1]

\* C11 amended: the component is the sum of the accepted samples, added left
\* to right in double arithmetic, divided by their number; for N identical
\* samples it is the sample's value when N is 1 or 2 and within N units in
\* the last place of it otherwise.
C11Amended ==
  (fMean # <<>> /\ Identical(fSamples)) =>
    /\ Len(fSamples) <= 2 => fMean[1] = fSamples[1]
    /\ WithinUlps(fMean[1], fSamples[1], Len(fSamples))

\* the mean of two samples of 0.36
C11Witness == fSamples = <<D036, D036>> /\ fMean = <<D036>>

\* ---- C12 ----
\* C12 as claimed: after every frame delivered at or after the end of the
\* window the session is no longer Collecting, whether or not the frame
\* carried landmarks or a signal.
C12Claimed ==
  (isCalibrationRef /\ op \in {"signal", "noInput"}) =>
    clock < calibrationEndTimeRef

\* ---- C13 ----
\* C13: a calibration starts only while none is Collecting, and the start
\* clears the sample list, sets the end of the window to now + 10000 ms,
\* discards the baseline and enters Collecting.
C13Theorem ==
  [][ starts' = starts + 1 =>
        /\ ~isCalibrationRef
        /\ samplesRef' = <<>>
        /\ calibrationEndTimeRef' = clock + CALIBRATION_DURATION_MS
        /\ neutralRef' = <<>>
        /\ ~hasCalibratedRef'
        /\ isCalibrationRef' ]_vars

\* a second calibration started after an alert, hence over a baseline
C13Witness ==
  /\ op = "start" /\ starts = 2
  /\ alertTimes # <<>>
  /\ neutralRef = <<>> /\ isCalibrationRef

\* ---- C14 ----
\* C14: a frame without landmarks or without a signal leaves the samples, the
\* last sample time, the end of the window, the Collecting flag, the baseline
\* and the tension start time unchanged and emits no alert.
C14Theorem ==
  [][ (FrameStep /\ op' = "noInput") =>
        /\ UNCHANGED <<samplesRef, lastSampleTimeRef, calibrationEndTimeRef,
                       isCalibrationRef, isCalibrating, neutralRef,
                       hasCalibratedRef, tensionStartTimeRef>>
        /\ ~fired' ]_vars

\* a frame without a signal 3000 ms or more into an accumulation
C14Witness ==
  /\ op = "noInput"
  /\ tensionStartTimeRef # NULL
  /\ clock - tensionStartTimeRef >= TENSION_ALERT_THRESHOLD_MS


\* ---- C15 ----
\* the two face-edge landmarks of a non-empty list
LeftEdge == landmarks[FACE_LM.leftFaceEdge]
RightEdge == landmarks[FACE_LM.rightFaceEdge]

\* every component of the signals s is a finite number
AllFinite(s) ==
  /\ Finite(s.eyeOpenAvg) /\ Finite(s.browInnerDist) /\ Finite(s.mouthWidth)
  /\ Finite(s.mouthCornerLift) /\ Finite(s.cheekRaise)
  /\ Finite(s.headRotation)

\* C15: computeSignals returns null for the empty landmark list and for
\* every list whose two face-edge landmarks coincide in (x, y); when it
\* returns signals the two edges differ and no component is the result of a
\* division by zero.
C15Theorem ==
  extractDone =>
    /\ landmarks = <<>> => extracted = <<>>
    /\ (landmarks # <<>> /\ LeftEdge = RightEdge) => extracted = <<>>
    /\ extracted # <<>> =>
         /\ landmarks # <<>>
         /\ LeftEdge # RightEdge
         /\ dist2D(LeftEdge, RightEdge) > 0
         /\ AllFinite(extracted[1])

\* a face whose two edges coincide has been given to computeSignals
C15Witness ==
  /\ extractDone /\ landmarks # <<>>
  /\ LeftEdge = RightEdge
  /\ extracted = <<>>

\* ---- C16 ----
\* C16 as claimed: whenever signals are produced, headRotation is strictly
\* between -1 and 1, and it is 0 when the nose bridge is horizontally as far
\* from one face edge as from the other.
C16Claimed ==
  (extractDone /\ extracted # <<>>) =>
    /\ RLess(<<-1, 1>>, extracted[1].headRotation)
    /\ RLess(extracted[1].headRotation, ROne)
    /\ Abs(landmarks[FACE_LM.noseBridge].x - LeftEdge.x)
         = Abs(RightEdge.x - landmarks[FACE_LM.noseBridge].x)
       => extracted[1].headRotation = RZero


\* ---- C17 ----
\* the call of checkTension has returned
Checked == checked # <<>>

\* the head of the live signal is turned past the threshold (0.5)
LiveTurned == Abs(signalsIn.headRotation) * 2 > Den

\* the live eye opening, or the live brow distance, is below 0.9 of the
\* baseline's
EyeBelow == signalsIn.eyeOpenAvg * 10 < neutralIn.eyeOpenAvg * 9
BrowBelow == signalsIn.browInnerDist * 10 < neutralIn.browInnerDist * 9

\* C17: a frame is classified tense (and tension starts accumulating)
\* exactly when the head is not turned, the face is not smiling, and the eye
\* opening is strictly below 0.9 of the baseline's or the brow distance is
\* strictly below 0.9 of the baseline's; a value equal to 0.9 of the
\* baseline's does not count.
C17Theorem ==
  Checked =>
    /\ (checked[1].verdict = "tense")
         = (~LiveTurned /\ ~checked[1].isSmiling /\ (EyeBelow \/ BrowBelow))
    /\ (checked[1].tensionStartTimeRef # NULL) = (checked[1].verdict = "tense")

\* eyes and brows exactly at 0.9 of the baseline: not tense
C17Witness ==
  /\ Checked /\ ~LiveTurned /\ ~checked[1].isSmiling
  /\ signalsIn.eyeOpenAvg * 10 = neutralIn.eyeOpenAvg * 9
  /\ signalsIn.browInnerDist * 10 = neutralIn.browInnerDist * 9
  /\ checked[1].verdict = "relaxed"
  /\ checked[1].tensionStartTimeRef = NULL

\* ---- C18 ----
\* the smile score before Math.min, from the inputs: each component is
\* counted only when it is positive
PosPart(n) == IF n > 0 THEN n ELSE 0

RawScore ==
  RAdd(RAdd(Rat(4 * PosPart(signalsIn.mouthWidth - neutralIn.mouthWidth),
                neutralIn.mouthWidth),
            Rat(35 * PosPart(signalsIn.mouthCornerLift
                               - neutralIn.mouthCornerLift), Den)),
       Rat(5 * PosPart(neutralIn.cheekRaise - signalsIn.cheekRaise),
           2 * neutralIn.cheekRaise))

\* the score exceeds 0.3
ScoreAboveLimit == RLess(<<3, 10>>, RawScore)

\* how many of the three indicators are true: the mouth is wider than 1.05
\* of the baseline's, the corner lift is above its threshold, the cheek
\* distance is below 0.95 of the baseline's
IndicatorCount ==
  (IF signalsIn.mouthWidth * 100 > neutralIn.mouthWidth * 105 THEN 1 ELSE 0)
  + (IF indicators[2] THEN 1 ELSE 0)
  + (IF signalsIn.cheekRaise * 100 < neutralIn.cheekRaise * 95 THEN 1 ELSE 0)

LiftDelta == signalsIn.mouthCornerLift - neutralIn.mouthCornerLift

\* C19 as claimed: the corner-lift indicator is true exactly when the lift
\* delta exceeds the larger of 0.3 of the baseline's lift and 0.002.
C19Claimed ==
  (Checked /\ ~LiveTurned) =>
    indicators[2] = (/\ LiftDelta * 10 > neutralIn.mouthCornerLift * 3
                     /\ LiftDelta * 1000 > 2 * Den)

\* ---- C20 ----
\* C20: the smile score is between 0 and 1: it is the weighted sum of the
\* three components, none of them negative, and 1 when that sum exceeds 1.
C20Theorem ==
  Checked =>
    /\ ~RLess(checked[1].smileScore, RZero)
    /\ ~RLess(ROne, checked[1].smileScore)
    /\ ~LiveTurned =>
         checked[1].smileScore
           = IF RLess(ROne, RawScore) THEN ROne ELSE RawScore

\* a weighted sum above 1 has been returned as 1
C20Witness ==
  /\ Checked /\ ~LiveTurned
  /\ RLess(ROne, RawScore)
  /\ checked[1].smileScore = ROne


\* ---- C21 ----
\* C21: a frame with a baseline whose signal has |headRotation| > 0.5 is
\* reported as head turned and nothing else: the smile state is false with
\* score 0, the detector is Idle and no alert is emitted, whatever the other
\* components of the signal are and however long tension had accumulated.
C21Theorem ==
  (op = "signal" /\ HeadTurned(sig[1]) /\ neutralRef # <<>>) =>
    /\ verdict = "headTurned"
    /\ ~isSmiling
    /\ smileScore = RZero
    /\ tensionStartTimeRef = NULL
    /\ ~fired

\* with alerts on, a head-turned frame with the eyes at 80%, arriving when
\* the alert was due
C21Witness ==
  /\ op = "signal" /\ sig = <<Turned>> /\ neutralRef # <<>>
  /\ isAlertEnabled
  /\ prevStart # NULL
  /\ clock - prevStart >= TENSION_ALERT_THRESHOLD_MS
  /\ verdict = "headTurned" /\ ~fired


\* ---- C22 ----
\* the two landmarks have equal x and equal y
SameXY == pointA.x = pointB.x /\ pointA.y = pointB.y

\* |k * 2^unitExp| < 2^-537, for the integers k used
Tiny(k) ==
  \/ k = 0
  \/ (Abs(k) = 1 /\ unitExp < -537)
  \/ (Abs(k) = 2 /\ unitExp + 1 < -537)

\* C22 as claimed: dist2D(a, b) = dist2D(b, a), the z coordinates do not
\* matter, and the distance is 0 exactly when the landmarks have equal x and
\* equal y.
C22Claimed ==
  measured # <<>> =>
    /\ measured[1].ab = measured[1].ba
    /\ measured[1].otherZ = measured[1].ab
    /\ (measured[1].ab[1] = 0) = SameXY

\* C22 amended: dist2D(a, b) = dist2D(b, a), the z coordinates do not
\* matter, the distance is 0 when the landmarks have equal x and equal y,
\* and it is 0 otherwise only if both coordinate differences are smaller
\* than 2^-537 in magnitude: it is positive as soon as one of them is at
\* least 2^-537.
C22Amended ==
  measured # <<>> =>
    /\ measured[1].ab = measured[1].ba
    /\ measured[1].otherZ = measured[1].ab
    /\ SameXY => measured[1].ab[1] = 0
    /\ measured[1].ab[1] = 0 =>
         (Tiny(pointA.x - pointB.x) /\ Tiny(pointA.y - pointB.y))
    /\ ~(Tiny(pointA.x - pointB.x) /\ Tiny(pointA.y - pointB.y)) =>
         measured[1].ab[1] > 0

\* two landmarks 2^-537 apart in x and different in z: a positive distance,
\* the smallest there is
C22Witness ==
  /\ measured # <<>>
  /\ unitExp = -538
  /\ Abs(pointA.x - pointB.x) = 2 /\ pointA.y = pointB.y
  /\ pointA.z # pointB.z
  /\ measured[1].ab = <<1, MinExp>>
  /\ measured[1].ba = <<1, MinExp>>


\* ---- C23 ----
\* the time of the last accepted sample of the session, 0 if there is none
LastAccepted ==
  IF sampleLog = <<>> THEN 0 ELSE sampleLog[Len(sampleLog)].time

\* C23 as claimed: a frame changes lastSampleTimeRef only if its sample is
\* accepted, and while Collecting an in-gate sample offered at least 100 ms
\* after the last accepted one is accepted.
C23Claimed ==
  [][ FrameStep =>
        /\ lastSampleTimeRef' # lastSampleTimeRef
             => Len(sampleLog') = Len(sampleLog) + 1
        /\ (/\ isCalibrationRef
            /\ op' = "signal"
            /\ ~HeadTurned(sig'[1])
            /\ clock' - LastAccepted >= SAMPLE_INTERVAL_MS)
             => Len(sampleLog') = Len(sampleLog) + 1 ]_vars


\* ---- C24 ----
\* C24 as claimed: a sample is added to the sample list only by a frame
\* whose time is not later than the end of the calibration window, the
\* frame that finalizes the session included.
C24Claimed ==
  [][ (FrameStep /\ Len(sampleLog') = Len(sampleLog) + 1) =>
        clock' <= calibrationEndTimeRef ]_vars


\* ---- C25 ----
\* C25 as claimed: while a session is Collecting the remaining seconds shown
\* are between 0 and 10, are those of the current session (10 right after
\* its start, not a value left by the previous one), and never increase from
\* one frame of the session to the next.
C25Claimed ==
  [][ /\ isCalibrationRef' =>
           /\ calibrationSecondsLeft' >= 0
           /\ calibrationSecondsLeft' * 1000 <= CALIBRATION_DURATION_MS
      /\ op' = "start" =>
           calibrationSecondsLeft'
             = Max(0, CeilSeconds(calibrationEndTimeRef' - clock'))
      /\ (FrameStep /\ isCalibrationRef /\ isCalibrationRef') =>
           calibrationSecondsLeft' <= calibrationSecondsLeft ]_vars


\* ---- C26 ----
\* C26: after every frame and every click a baseline is stored exactly if
\* the calibrated flag is set; right after a start neither is, and right
\* after a calibration finalizes both are exactly if the session had
\* accepted a sample.
C26Theorem ==
  /\ (neutralRef # <<>>) = hasCalibratedRef
  /\ op = "start" => ~hasCalibratedRef
  /\ finalized => hasCalibratedRef = (sampleLog # <<>>)

\* a second calibration, started with a baseline stored, has finalized
\* without any sample: no baseline and no flag
C26Witness ==
  /\ finalized /\ starts = 2
  /\ sampleLog = <<>>
  /\ neutralRef = <<>> /\ ~hasCalibratedRef
  /\ alertTimes # <<>>


\* ---- C27 ----
\* C27: with alerts off, a tense frame at least 3000 ms after the start of
\* the accumulation emits nothing and leaves the detector Idle; an
\* accumulation starts only at the time of the frame that starts it, and an
\* alert needs an accumulation at least 3000 ms old, so after that reset no
\* alert comes before a new accumulation of 3000 ms, alerts on or off.
C27Theorem ==
  [][ FrameStep =>
        /\ (/\ verdict' = "tense"
            /\ ~isAlertEnabled
            /\ tensionStartTimeRef # NULL
            /\ clock' - tensionStartTimeRef >= TENSION_ALERT_THRESHOLD_MS)
             => (~fired' /\ audioCtxRef' = audioCtxRef
                 /\ tensionStartTimeRef' = NULL)
        /\ (tensionStartTimeRef = NULL /\ tensionStartTimeRef' # NULL)
             => (tensionStartTimeRef' = clock' /\ clock' > clock)
        /\ fired' =>
             /\ tensionStartTimeRef # NULL
             /\ clock' - tensionStartTimeRef >= TENSION_ALERT_THRESHOLD_MS
    ]_vars

\* with alerts off, the frame on which the alert was due: nothing emitted,
\* no audio context created, the detector Idle
C27Witness ==
  /\ op = "signal" /\ verdict = "tense"
  /\ ~isAlertEnabled
  /\ prevStart # NULL
  /\ clock - prevStart >= TENSION_ALERT_THRESHOLD_MS
  /\ ~fired /\ ~audioCtxRef
  /\ tensionStartTimeRef = NULL


\* ---- C28 ----
\* the loops whose closure is not cancelled
LiveLoops == {i \in DOMAIN loops : ~loops[i].cancelled}

\* the session, the baseline and the tension start time
SessionVars == <<neutralRef, hasCalibratedRef, samplesRef,
                 calibrationEndTimeRef, isCalibrationRef, lastSampleTimeRef,
                 tensionStartTimeRef>>

\* C28: the click on the switch and the restart of the loop it causes leave
\* the baseline, the calibration session and the tension start time as they
\* were; there is never more than one loop that is not cancelled, only the
\* newest loop has a callback waiting, and no other loop ever runs a frame
\* or asks for a callback.
C28Theorem ==
  [][ /\ (effectDue' # effectDue) => UNCHANGED SessionVars
      /\ Cardinality(LiveLoops') <= 1
      /\ Cardinality(rafQueue') <= 1
      /\ \A c \in rafQueue' :
           c.loop = Len(loops') /\ ~loops'[c.loop].cancelled
      /\ ~lateWork' ]_vars

\* the loop restarted while a calibrated detector was accumulating tension:
\* the first loop cancelled, the callback of the second one waiting
C28Witness ==
  /\ Len(loops) = 2 /\ ~effectDue
  /\ loops[1].cancelled /\ ~loops[2].cancelled
  /\ neutralRef # <<>> /\ tensionStartTimeRef # NULL
  /\ rafQueue = {[id |-> rafIdRef, loop |-> 2]}


\* ---- C29 ----
\* C29: the landmarker is closed only after the unmount and at most once;
\* after the unmount the status stays what it was; if the unmount came while
\* loading, the landmarker is never published and the status stays
\* "loading"; and once the load has been dealt with, a landmarker that was
\* created has been closed.
C29Theorem ==
  /\ lmHook.closes <= 1
  /\ mounted => lmHook.closes = 0
  /\ ~mounted =>
       /\ lmHook.status = unmountStatus[1]
       /\ unmountStatus[1] = "loading" => ~lmHook.ref
       /\ (lmHook.created /\ lmHook.step = "done") => lmHook.closes = 1

\* unmounted while loading; the landmarker was created afterwards and has
\* been closed without being published
C29Witness ==
  /\ ~mounted /\ unmountStatus[1] = "loading"
  /\ lmHook.created /\ lmHook.step = "done"
  /\ lmHook.closes = 1 /\ ~lmHook.ref
  /\ lmHook.status = "loading"

\* ---- C30 ----
\* C30 as claimed: after the unmount the camera status stays what it was,
\* and a stream that was obtained has its tracks stopped, at the unmount or,
\* if getUserMedia had not been dealt with by then, when it is.
C30Claimed ==
  ~mounted =>
    /\ camHook.status = unmountStatus[2]
    /\ (camHook.obtained /\ camHook.step # "stream") => camHook.stopped


====
